---- MODULE Spec2Model ----
(***************************************************************************)
(* Exact cover solver (Knuth's DLX, smallest column first) of              *)
(* src/exactcover.c: the sparse matrix of four-way linked nodes, the       *)
(* cover/uncover operations, and the resumable search iterator.            *)
(*                                                                         *)
(* Nodes are numbered 1..n in allocation order; node 1 is the corner       *)
(* (root) header, 0 is the NULL pointer.  A header is a node that is its   *)
(* own column.  Elements (universe members) and row objects are naturals:  *)
(* an element is its label, a row object is the position of the row in     *)
(* the input.                                                              *)
(***************************************************************************)
EXTENDS Integers, Sequences, FiniteSets, TLC

(* ----------------------------- bounds ---------------------------------- *)
NumElems == 2      \* elements of the enumerated inputs are 1..NumElems
MaxCells == 4      \* most element occurrences (cells) of an enumerated input
MaxRows == 2       \* most rows of the enumerated inputs
MaxYield == 6      \* most outcomes recorded in the history of one iterator
MaxFaultCells == 2 \* most cells of an input built with a failing host
MaxInits == 2      \* most calls of __init__ on one object
MaxPairCells == 3  \* most cells of an input given to two iterators

NULL == 0
Corner == 1

Range(f) == {f[i] : i \in DOMAIN f}

(* ----------------------------- inputs ---------------------------------- *)
SeqsUpTo(S, n) == UNION {[1..k -> S] : k \in 0..n}

\* The sequences of exactly r rows over 1..NumElems with at most c elements in all.
RECURSIVE RowsOf(_, _)
RowsOf(r, c) ==
    IF r = 0 THEN {<< >>}
    ELSE UNION {{<<row>> \o rest : rest \in RowsOf(r - 1, c - Len(row))} :
                row \in SeqsUpTo(1..NumElems, c)}

EnumeratedInputs == UNION {RowsOf(r, MaxCells) : r \in 0..MaxRows}

\* Scenario A of the specification, Knuth's example, a..g = 1..7
ScenarioA == << <<3, 5, 6>>, <<1, 4, 7>>, <<2, 3, 6>>, <<1, 4>>, <<2, 7>>, <<4, 5, 7>> >>
ScenarioB == << <<1, 2>>, <<1>> >>
ScenarioC == << <<1>>, <<2>>, <<1, 2>> >>
ScenarioD == << >>
ScenarioE == << <<1>>, <<1>> >>

\* Rows that name an element twice, over three elements.
RepeatingRows == << <<1>>, <<2, 2, 3>>, <<1, 1, 3>> >>

Inputs ==
    EnumeratedInputs
        \cup {ScenarioA, ScenarioB, ScenarioC, ScenarioD, ScenarioE, RepeatingRows}

(* --------------------------- sparse matrix ----------------------------- *)
\* struct ElementRec / struct HeaderRec, one sequence per field.  hung and
\* fuelOut are not fields of the program: hung records that a loop of the
\* program was found to revisit a state it had been in (it never exits),
\* fuelOut that a traversal of the model was cut off.  covered and paired log
\* the calls: covered holds the columns unlink_column was called for and
\* link_column not yet, the latest last; paired turns FALSE when link_column is
\* called for a column that is not the last of covered.  snaps[d + 1] is the
\* matrix as it was seen just before the search covered its first row at
\* depth d; same turns FALSE when a backtrack, having uncovered the row at depth
\* d, does not see that matrix.
\* unlinked and linked log the moves of the loops of the last unlink_row and of
\* the last link_row.
alloc_matrix ==
    [up |-> <<Corner>>, down |-> <<Corner>>, left |-> <<Corner>>, right |-> <<Corner>>,
     column |-> <<Corner>>, object |-> <<NULL>>, count |-> <<0>>, label |-> <<NULL>>,
     hung |-> FALSE, fuelOut |-> FALSE, covered |-> << >>, paired |-> TRUE,
     snaps |-> << >>, same |-> TRUE, unlinked |-> << >>, linked |-> << >>]

NumNodes(m) == Len(m.up)

Fuel(m) == 2 * NumNodes(m) + 2

Links(m) == <<m.up, m.down, m.left, m.right>>

\* One move of a traversal: the loop variable goes from one node to the next
\* (row = row->up, e = e->left, ...).  The four links of the node it leaves are
\* kept as they are at that moment.
Move(m, kind, from, to) ==
    [kind |-> kind, from |-> from, to |-> to, up |-> m.up[from],
     down |-> m.down[from], left |-> m.left[from], right |-> m.right[from]]

\* The element taken out of its row instead of its column.
UnlinkElement_horizontal(m, e) ==
    LET m1 == [m EXCEPT !.count[m.column[e]] = @ - 1]
        m2 == [m1 EXCEPT !.right[m1.left[e]] = m1.right[e]]
    IN  [m2 EXCEPT !.left[m2.right[e]] = m2.left[e]]

\* e->up->down = e->down; e->down->up = e->up; with e->column->count--
UnlinkElement(m, e) ==
    LET m1 == [m EXCEPT !.count[m.column[e]] = @ - 1]
        m2 == [m1 EXCEPT !.down[m1.up[e]] = m1.down[e]]
    IN  [m2 EXCEPT !.up[m2.down[e]] = m2.up[e]]

\* e->up->down = e; e->down->up = e; with e->column->count++
LinkElement(m, e) ==
    LET m1 == [m EXCEPT !.count[m.column[e]] = @ + 1]
        m2 == [m1 EXCEPT !.down[m1.up[e]] = e]
    IN  [m2 EXCEPT !.up[m2.down[e]] = e]

RECURSIVE UnlinkRowElements(_, _, _, _)
UnlinkRowElements(m, row, e, fuel) ==
    IF e = row THEN m
    ELSE IF fuel = 0 THEN [m EXCEPT !.fuelOut = TRUE]
    ELSE CHOOSE r \in
             {UnlinkRowElements(
                  [m1 EXCEPT !.unlinked = Append(@, Move(m1, "cell", e, m1.left[e]))],
                  row, m1.left[e], fuel - 1) :
              m1 \in {UnlinkElement(m, e)}} : TRUE

RECURSIVE UnlinkColumnRows(_, _, _, _)
UnlinkColumnRows(m, c, row, fuel) ==
    IF row = c THEN m
    ELSE IF fuel = 0 THEN [m EXCEPT !.fuelOut = TRUE]
    ELSE CHOOSE r \in
             {IF m1.fuelOut THEN m1
              ELSE UnlinkColumnRows(
                       [m1 EXCEPT !.unlinked = Append(@, Move(m1, "row", row, m1.up[row]))],
                       c, m1.up[row], fuel - 1) :
              m1 \in {UnlinkRowElements(
                          [m EXCEPT !.unlinked = Append(@, Move(m, "cell", row, m.left[row]))],
                          row, m.left[row], Fuel(m))}} : TRUE

\* The rows of the column taken from column->e.down instead of column->e.up.
unlink_column_from_down(m, c) ==
    LET m1 == [m EXCEPT !.right[m.left[c]] = m.right[c], !.covered = Append(@, c)]
        m2 == [m1 EXCEPT !.left[m1.right[c]] = m1.left[c]]
        m3 == [m2 EXCEPT !.unlinked = Append(@, Move(m2, "row", c, m2.down[c]))]
    IN  UnlinkColumnRows(m3, c, m3.down[c], Fuel(m))

unlink_column(m, c) ==
    LET m1 == [m EXCEPT !.right[m.left[c]] = m.right[c], !.covered = Append(@, c)]
        m2 == [m1 EXCEPT !.left[m1.right[c]] = m1.left[c]]
        m3 == [m2 EXCEPT !.unlinked = Append(@, Move(m2, "row", c, m2.up[c]))]
    IN  UnlinkColumnRows(m3, c, m3.up[c], Fuel(m))

RECURSIVE LinkRowElements(_, _, _, _)
LinkRowElements(m, row, e, fuel) ==
    IF e = row THEN m
    ELSE IF fuel = 0 THEN [m EXCEPT !.fuelOut = TRUE]
    ELSE CHOOSE r \in
             {LinkRowElements(
                  [m1 EXCEPT !.linked = Append(@, Move(m1, "cell", e, m1.right[e]))],
                  row, m1.right[e], fuel - 1) :
              m1 \in {LinkElement(m, e)}} : TRUE

RECURSIVE LinkColumnRows(_, _, _, _)
LinkColumnRows(m, c, row, fuel) ==
    IF row = c THEN m
    ELSE IF fuel = 0 THEN [m EXCEPT !.fuelOut = TRUE]
    ELSE CHOOSE r \in
             {IF m1.fuelOut THEN m1
              ELSE LinkColumnRows(
                       [m1 EXCEPT !.linked = Append(@, Move(m1, "row", row, m1.down[row]))],
                       c, m1.down[row], fuel - 1) :
              m1 \in {LinkRowElements(
                          [m EXCEPT !.linked = Append(@, Move(m, "cell", row, m.right[row]))],
                          row, m.right[row], Fuel(m))}} : TRUE

link_column(m, c) ==
    LET n == Len(m.covered)
        m0 == IF n > 0 /\ m.covered[n] = c
              THEN [m EXCEPT !.covered = SubSeq(@, 1, n - 1)]
              ELSE [m EXCEPT !.paired = FALSE]
        m1 == [m0 EXCEPT !.right[m.left[c]] = c]
        m2 == [m1 EXCEPT !.left[m1.right[c]] = c]
        m3 == [m2 EXCEPT !.linked = Append(@, Move(m2, "row", c, m2.down[c]))]
    IN  LinkColumnRows(m3, c, m3.down[c], Fuel(m))

\* do { unlink_column(e->column); e = e->right; } while (e != row);
\* The loop reads only the links, so coming back to an element with the links
\* it had at an earlier visit means the loop never exits: hung.
RECURSIVE UnlinkRowLoop(_, _, _, _)
UnlinkRowLoop(m, row, e, seen) ==
    IF <<e, Links(m)>> \in seen THEN [m EXCEPT !.hung = TRUE]
    ELSE CHOOSE r \in
             {IF m1.fuelOut \/ m1.right[e] = row THEN m1
              ELSE UnlinkRowLoop(m1, row, m1.right[e], seen \cup {<<e, Links(m)>>}) :
              m1 \in {unlink_column(m, m.column[e])}} : TRUE

\* Only the column of the element handed in is removed.
unlink_row_own_column(m, row) == unlink_column(m, m.column[row])

unlink_row(m, row) == UnlinkRowLoop([m EXCEPT !.unlinked = << >>], row, row, {})

\* Only the column of the element handed in is put back.
link_row_own_column(m, row) == link_column(m, m.column[row])

\* e = row->left; do { link_column(e->column); e = e->left; } while (e != row->left);
RECURSIVE LinkRowLoop(_, _, _, _)
LinkRowLoop(m, row, e, seen) ==
    IF <<e, Links(m)>> \in seen THEN [m EXCEPT !.hung = TRUE]
    ELSE CHOOSE r \in
             {IF m1.fuelOut \/ m1.left[e] = m1.left[row] THEN m1
              ELSE LinkRowLoop(m1, row, m1.left[e], seen \cup {<<e, Links(m)>>}) :
              m1 \in {link_column(m, m.column[e])}} : TRUE

link_row(m, row) == LinkRowLoop([m EXCEPT !.linked = << >>], row, m.left[row], {})

\* The headers met going right from the corner, in order.
RECURSIVE HeaderWalk(_, _, _)
HeaderWalk(m, c, fuel) ==
    IF c = Corner \/ fuel = 0 THEN << >>
    ELSE <<c>> \o HeaderWalk(m, m.right[c], fuel - 1)

HeaderList(m) == HeaderWalk(m, m.right[Corner], NumNodes(m))

RECURSIVE SmallestOf(_, _, _)
SmallestOf(m, hs, smallest) ==
    IF hs = << >> THEN smallest
    ELSE SmallestOf(m, Tail(hs),
                    IF smallest = NULL \/ m.count[smallest] > m.count[Head(hs)]
                    THEN Head(hs) ELSE smallest)

\* smallest initialised to the corner instead of NULL.
smallest_column_from_corner(m) == SmallestOf(m, HeaderList(m), Corner)

\* smallest->count >= column->count: the last of the smallest columns is kept.
smallest_column_rightmost(m) ==
    LET hs == HeaderList(m)
    IN  IF hs = << >> THEN NULL
        ELSE hs[CHOOSE i \in DOMAIN hs : \A j \in DOMAIN hs :
                    \/ m.count[hs[i]] < m.count[hs[j]]
                    \/ m.count[hs[i]] = m.count[hs[j]] /\ i >= j]

smallest_column(m) == SmallestOf(m, HeaderList(m), NULL)

\* The turns of the do-while of check_column: the nodes met going down from e
\* until the walk is back at the header.
RECURSIVE CountDown(_, _, _, _)
CountDown(m, column, e, fuel) ==
    IF fuel = 0 \/ m.down[e] = column THEN 1
    ELSE 1 + CountDown(m, column, m.down[e], fuel - 1)

\* check_column: column->count == count - 1
check_column(m, column) ==
    m.count[column] = CountDown(m, column, column, NumNodes(m) + 1) - 1

column_count(m) == Len(HeaderList(m))

(* ------------------------------- build --------------------------------- *)
\* What the host can make fail during build: kind names the call that fails,
\* row and pos the row and the element of the input it fails at.
NoFault == [kind |-> "none", row |-> 0, pos |-> 0]

FaultAt(fault, kind, r, k) == fault.kind = kind /\ fault.row = r /\ fault.pos = k

\* The header whose label equals elem, NULL when there is none.
RECURSIVE ScanColumns(_, _, _)
ScanColumns(m, hs, elem) ==
    IF hs = << >> THEN NULL
    ELSE IF m.label[Head(hs)] = elem THEN Head(hs)
    ELSE ScanColumns(m, Tail(hs), elem)

\* The new header linked right of the corner: at the front of the header chain.
NewHeader_at_front(m, elem) ==
    LET i == NumNodes(m) + 1
        head == m.right[Corner]
        m1 == [m EXCEPT !.up = Append(@, i), !.down = Append(@, i),
                        !.column = Append(@, i), !.object = Append(@, NULL),
                        !.label = Append(@, elem), !.count = Append(@, 0),
                        !.left = Append(@, Corner), !.right = Append(@, head)]
        m2 == [m1 EXCEPT !.left[head] = i]
    IN  [m2 EXCEPT !.right[Corner] = i]

\* New header element, linked into the header chain left of the corner.
NewHeader(m, elem) ==
    LET i == NumNodes(m) + 1
        last == m.left[Corner]
        m1 == [m EXCEPT !.up = Append(@, i), !.down = Append(@, i),
                        !.column = Append(@, i), !.object = Append(@, NULL),
                        !.label = Append(@, elem), !.count = Append(@, 0),
                        !.right = Append(@, Corner), !.left = Append(@, last)]
        m2 == [m1 EXCEPT !.right[last] = i]
    IN  [m2 EXCEPT !.left[Corner] = i]

\* Returns the matrix and the column found or inserted; col = NULL on failure.
find_column(m, elem, cmpFails, allocFails) ==
    LET found == ScanColumns(m, HeaderList(m), elem)
    IN  IF cmpFails /\ HeaderList(m) # << >> THEN [m |-> m, col |-> NULL]
        ELSE IF found # NULL THEN [m |-> m, col |-> found]
        ELSE IF allocFails THEN [m |-> m, col |-> NULL]
        ELSE [m |-> NewHeader(m, elem), col |-> NumNodes(m) + 1]

\* The element linked into its row right of the first element of the row
\* instead of left of it.
NewElement_right_of_first(m, column, rowObj, row) ==
    LET e == NumNodes(m) + 1
        above == m.up[column]
        m1 == [m EXCEPT !.column = Append(@, column), !.object = Append(@, rowObj),
                        !.label = Append(@, NULL), !.count = Append(@, 0),
                        !.up = Append(@, above), !.down = Append(@, column),
                        !.left = Append(@, IF row = NULL THEN e ELSE row),
                        !.right = Append(@, IF row = NULL THEN e ELSE m.right[row])]
        m2 == [m1 EXCEPT !.count[column] = @ + 1]
        m3 == [m2 EXCEPT !.down[above] = e]
        m4 == [m3 EXCEPT !.up[column] = e]
        m5 == IF row = NULL THEN m4 ELSE [m4 EXCEPT !.left[m4.right[row]] = e]
    IN  IF row = NULL THEN m5 ELSE [m5 EXCEPT !.right[row] = e]

\* The element created without e->column = column: it is left its own column.
NewElement_no_column(m, column, rowObj, row) ==
    LET e == NumNodes(m) + 1
        above == m.up[column]
        m1 == [m EXCEPT !.column = Append(@, e), !.object = Append(@, rowObj),
                        !.label = Append(@, NULL), !.count = Append(@, 0),
                        !.up = Append(@, above), !.down = Append(@, column),
                        !.left = Append(@, IF row = NULL THEN e ELSE m.left[row]),
                        !.right = Append(@, IF row = NULL THEN e ELSE row)]
        m2 == [m1 EXCEPT !.count[column] = @ + 1]
        m3 == [m2 EXCEPT !.down[above] = e]
        m4 == [m3 EXCEPT !.up[column] = e]
        m5 == IF row = NULL THEN m4 ELSE [m4 EXCEPT !.right[m4.left[row]] = e]
    IN  IF row = NULL THEN m5 ELSE [m5 EXCEPT !.left[row] = e]

\* Create element, link into column (above the header), link into row (left
\* of the row's first element).  rowObj is the row object, row the first
\* element of the row so far or NULL.
NewElement(m, column, rowObj, row) ==
    LET e == NumNodes(m) + 1
        above == m.up[column]
        m1 == [m EXCEPT !.column = Append(@, column), !.object = Append(@, rowObj),
                        !.label = Append(@, NULL), !.count = Append(@, 0),
                        !.up = Append(@, above), !.down = Append(@, column),
                        !.left = Append(@, IF row = NULL THEN e ELSE m.left[row]),
                        !.right = Append(@, IF row = NULL THEN e ELSE row)]
        m2 == [m1 EXCEPT !.count[column] = @ + 1]
        m3 == [m2 EXCEPT !.down[above] = e]
        m4 == [m3 EXCEPT !.up[column] = e]
        m5 == IF row = NULL THEN m4 ELSE [m4 EXCEPT !.right[m4.left[row]] = e]
    IN  IF row = NULL THEN m5 ELSE [m5 EXCEPT !.left[row] = e]

\* while ((elem = PyIter_Next(it))) { ... } for row r from its element k on.
RECURSIVE BuildRow(_, _, _, _, _, _)
BuildRow(m, input, r, k, row, fault) ==
    IF k > Len(input[r]) \/ FaultAt(fault, "elem_next", r, k)
    THEN [m |-> m, ok |-> TRUE, pending |-> FaultAt(fault, "elem_next", r, k)]
    ELSE LET fc == find_column(m, input[r][k], FaultAt(fault, "compare", r, k),
                               FaultAt(fault, "header_alloc", r, k))
         IN  IF fc.col = NULL \/ FaultAt(fault, "cell_alloc", r, k)
             THEN [m |-> fc.m, ok |-> FALSE, pending |-> TRUE]
             ELSE BuildRow(NewElement(fc.m, fc.col, r, row), input, r, k + 1,
                           IF row = NULL THEN NumNodes(fc.m) + 1 ELSE row, fault)

\* The outer loop leaving at the first row that has no element.
RECURSIVE BuildRows_stop_at_empty(_, _, _, _, _)
BuildRows_stop_at_empty(m, input, r, fault, pending) ==
    IF r > Len(input) \/ FaultAt(fault, "rows_next", r, 0) \/ input[r] = << >>
    THEN [m |-> m, ok |-> TRUE, pending |-> pending \/ FaultAt(fault, "rows_next", r, 0)]
    ELSE IF FaultAt(fault, "row_iter", r, 0)
    THEN [m |-> m, ok |-> FALSE, pending |-> TRUE]
    ELSE LET b == BuildRow(m, input, r, 1, NULL, fault)
         IN  IF ~b.ok THEN b
             ELSE BuildRows_stop_at_empty(b.m, input, r + 1, fault, pending \/ b.pending)

\* while ((cover = PyIter_Next(coverIt))) { ... } from row r on.
RECURSIVE BuildRows(_, _, _, _, _)
BuildRows(m, input, r, fault, pending) ==
    IF r > Len(input) \/ FaultAt(fault, "rows_next", r, 0)
    THEN [m |-> m, ok |-> TRUE, pending |-> pending \/ FaultAt(fault, "rows_next", r, 0)]
    ELSE IF FaultAt(fault, "row_iter", r, 0)
    THEN [m |-> m, ok |-> FALSE, pending |-> TRUE]
    ELSE LET b == BuildRow(m, input, r, 1, NULL, fault)
         IN  IF ~b.ok THEN b
             ELSE BuildRows(b.m, input, r + 1, fault, pending \/ b.pending)

\* The loops of coverings / coverings_init over the input, on a fresh matrix.
BuildMatrix(input, fault) ==
    IF fault.kind = "covers_iter" THEN [m |-> alloc_matrix, ok |-> FALSE, pending |-> TRUE]
    ELSE BuildRows(alloc_matrix, input, 1, fault, FALSE)

(* ------------------------------ free ----------------------------------- *)
\* The elements of one column that free_matrix frees, going down from e.
RECURSIVE ColumnFrees(_, _, _, _)
ColumnFrees(m, column, e, fuel) ==
    IF e = column \/ fuel = 0 THEN << >>
    ELSE <<e>> \o ColumnFrees(m, column, m.down[e], fuel - 1)

\* The cells linked in the vertical list of header h, going down.
ColumnCells(mx, h) == ColumnFrees(mx, h, mx.down[h], NumNodes(mx))

RECURSIVE MatrixFrees(_, _, _)
MatrixFrees(m, column, fuel) ==
    IF column = Corner \/ fuel = 0 THEN << >>
    ELSE ColumnFrees(m, column, m.down[column], Fuel(m)) \o <<column>>
         \o MatrixFrees(m, m.right[column], fuel - 1)

\* The nodes free_matrix passes to PyMem_Del, in order; corner = NULL frees nothing.
free_matrix(m, corner) ==
    IF corner = NULL THEN << >>
    ELSE MatrixFrees(m, m.right[Corner], Fuel(m)) \o <<Corner>>

\* How often each node of m was freed, after the nodes of seq are freed too.
RECURSIVE CountFrees(_, _)
CountFrees(frees, seq) ==
    IF seq = << >> THEN frees
    ELSE CountFrees([frees EXCEPT ![Head(seq)] = @ + 1], Tail(seq))

NoFrees(m) == [i \in 1..NumNodes(m) |-> 0]

(* ---------------------------- the iterator ----------------------------- *)
\* The iterator object as the search operations see it: s.m the matrix,
\* s.corner self->corner, s.solution the stack buffer (solution[i] of the
\* program is s.solution[i+1]), s.buf whether that buffer is "live", "freed"
\* or "null", s.solutionSize the depth.  s.ub names the first access the C
\* standard leaves undefined: "none", "null corner", "stack index" (outside a
\* live buffer), "freed buffer", "null buffer".
BufferAccess(s, i) ==
    IF s.buf = "freed" THEN "freed buffer"
    ELSE IF s.buf = "null" THEN "null buffer"
    ELSE IF i < 0 \/ i >= Len(s.solution) THEN "stack index"
    ELSE "none"

\* What of the matrix can be reached from the corner: the headers of the header
\* list, the cells of their vertical lists, and their links and counts.
Reachable(mx) ==
    {Corner} \cup Range(HeaderList(mx))
        \cup UNION {Range(ColumnCells(mx, HeaderList(mx)[i])) : i \in DOMAIN HeaderList(mx)}

View(mx) ==
    CHOOSE v \in
        {[n \in Reachable(x) |-> <<x.up[n], x.down[n], x.left[n], x.right[n], x.count[n]>>] :
         x \in {mx}} : TRUE

\* The matrix with the view of it stored as the one seen at depth d.
Snapshot(mx, d) ==
    IF d \in 0..Len(mx.snaps)
    THEN [mx EXCEPT !.snaps = SubSeq(@, 1, d) \o <<View(mx)>>]
    ELSE mx

\* The matrix after the uncover of the row at depth d - 1, compared with the
\* view stored for that depth.
Compared(mx, d) ==
    IF d \in 1..Len(mx.snaps) /\ ~mx.hung /\ ~mx.fuelOut
    THEN [mx EXCEPT !.same = @ /\ View(mx) = mx.snaps[d]]
    ELSE mx

\* Make one solving step.
coveringsiter_step(s) ==
    IF s.corner = NULL THEN [action |-> "CONTINUE", s |-> [s EXCEPT !.ub = "null corner"]]
    ELSE
    LET column == smallest_column(s.m)
    IN  IF column = NULL THEN [action |-> "SOLUTION", s |-> s]
        ELSE IF s.m.count[column] = 0 THEN [action |-> "BACKUP", s |-> s]
        ELSE LET row == s.m.down[column]
                 acc == BufferAccess(s, s.solutionSize)
             IN  [action |-> "CONTINUE",
                  s |-> CHOOSE s1 \in
                      {IF m1.hung \/ m1.fuelOut THEN [s EXCEPT !.m = m1]
                       ELSE IF acc # "none" THEN [s EXCEPT !.m = m1, !.ub = acc]
                       ELSE [s EXCEPT !.m = m1,
                                      !.solution[s.solutionSize + 1] = row,
                                      !.solutionSize = @ + 1] :
                       m1 \in {unlink_row(Snapshot(s.m, s.solutionSize), row)}} : TRUE]

\* while (self->solutionSize > 0) { ... } return -1;
RECURSIVE BackupLoop(_)
BackupLoop(s) ==
    IF ~(s.solutionSize > 0) THEN [ret |-> -1, s |-> s]
    ELSE IF BufferAccess(s, s.solutionSize - 1) # "none"
    THEN [ret |-> -1, s |-> [s EXCEPT !.ub = BufferAccess(s, s.solutionSize - 1)]]
    ELSE LET row == s.solution[s.solutionSize]
         IN  CHOOSE b \in
             {LET next == m1.down[row]
              IN  IF m1.hung \/ m1.fuelOut THEN [ret |-> 0, s |-> [s EXCEPT !.m = m1]]
                  ELSE IF next = m1.column[next]
                  THEN BackupLoop([s EXCEPT !.m = m1, !.solutionSize = @ - 1])
                  ELSE [ret |-> 0,
                        s |-> [s EXCEPT !.m = unlink_row(m1, next),
                                        !.solution[s.solutionSize] = next]] :
              m1 \in {Compared(m0, s.solutionSize) : m0 \in {link_row(s.m, row)}}} : TRUE

\* The loop written as while (self->solutionSize-- > 0), which leaves -1 behind.
coveringsiter_backup_postdec(s) ==
    LET b == BackupLoop(s)
    IN  IF b.ret < 0 /\ b.s.ub = "none"
        THEN [ret |-> -1, s |-> [b.s EXCEPT !.solutionSize = @ - 1]]
        ELSE b

\* backtrack; ret = -1 if there are no more solutions
coveringsiter_backup(s) == BackupLoop(s)

\* The tuple filled from the top of the stack down.
coveringsiter_solution_reversed(s) ==
    [i \in 1..s.solutionSize |-> s.m.object[s.solution[s.solutionSize + 1 - i]]]

\* Create a tuple of the current solution stack: the row objects, bottom first.
coveringsiter_solution(s) ==
    [i \in 1..s.solutionSize |-> s.m.object[s.solution[i]]]

\* The destructor without its restore loop: the stack is emptied, no row uncovered.
RestoreMatrix_skipped(s) == [s EXCEPT !.solutionSize = -1]

\* restore matrix: while (--self->solutionSize >= 0) link_row(...);
RECURSIVE RestoreMatrix(_)
RestoreMatrix(s) ==
    LET n == s.solutionSize - 1
    IN  IF ~(n >= 0) THEN [s EXCEPT !.solutionSize = n]
        ELSE IF BufferAccess(s, n) # "none"
        THEN [s EXCEPT !.solutionSize = n, !.ub = BufferAccess(s, n)]
        ELSE LET m1 == link_row(s.m, s.solution[n + 1])
             IN  IF m1.hung \/ m1.fuelOut THEN [s EXCEPT !.m = m1, !.solutionSize = n]
                 ELSE RestoreMatrix([s EXCEPT !.m = m1, !.solutionSize = n])

(* ------------------------------- state --------------------------------- *)
VARIABLES
    input,         \* the rows handed to the constructor
    api,           \* "func": coverings() returning a coveringsiter object;
                   \* "class": the coverings type with __init__
    pc,            \* "new", "idle" (between calls), "loop" (inside Next),
                   \* "hung", "undefined", "failed", "dropped"
    m,             \* the nodes of the matrix
    corner,        \* self->corner: Corner or NULL
    first,         \* self->first
    solution,      \* self->solution, the stack buffer
    solutionSize,  \* self->solutionSize
    solBuf,        \* the buffer self->solution points to: "null", "live", "freed"
    result,        \* what the last Next call returned: "none" before the first
    tuple,         \* the tuple of the last Solution
    history,       \* the outcomes of the Next calls since construction
    built,         \* the matrix just after build
    fault,         \* the failure of the host met by the last construction
    pending,       \* an error of the host is set and was not reported
    frees,         \* how often each node of m was passed to PyMem_Del
    ub,            \* the undefined access that happened, "none" if none did
    lost,          \* nodes of an earlier matrix that were let go without being freed
    inits,         \* the constructions so far
    other          \* a second iterator object: its input, pc, history and fields

vars == <<input, api, pc, m, corner, first, solution, solutionSize, solBuf, result,
          tuple, history, built, fault, pending, frees, ub, lost, inits, other>>

Self == [m |-> m, corner |-> corner, solution |-> solution, buf |-> solBuf,
         solutionSize |-> solutionSize, ub |-> ub]

\* The object before construction: nothing for coverings(), the zeroed
\* object of PyType_GenericNew for the coverings type.
InitObject ==
    /\ m = alloc_matrix
    /\ corner = NULL
    /\ first = FALSE
    /\ solution = << >>
    /\ solutionSize = 0
    /\ solBuf = "null"
    /\ result = "none"
    /\ tuple = << >>
    /\ history = << >>
    /\ built = alloc_matrix
    /\ fault = NoFault
    /\ pending = FALSE
    /\ frees = NoFrees(alloc_matrix)
    /\ ub = "none"
    /\ lost = FALSE
    /\ inits = 0

\* The second object before its construction, to be built from rows.
NoOther(rows) ==
    [input |-> rows, pc |-> "new", history |-> << >>, first |-> FALSE,
     m |-> alloc_matrix, corner |-> NULL, solution |-> << >>, buf |-> "null",
     solutionSize |-> 0, ub |-> "none"]

Init ==
    /\ input \in Inputs
    /\ api = "func"
    /\ pc = "new"
    /\ InitObject
    /\ other = NoOther(input)

(* ------------------------------ actions -------------------------------- *)
\* coverings(covers) when no call of the host fails: build the matrix, then
\* the iterator with a stack buffer of column_count entries.
Construct ==
    /\ pc = "new"
    /\ api = "func"
    /\ LET b == BuildMatrix(input, NoFault)
       IN  /\ m' = b.m
           /\ built' = b.m
           /\ frees' = NoFrees(b.m)
           /\ solution' = [i \in 1..column_count(b.m) |-> NULL]
    /\ corner' = Corner
    /\ first' = TRUE
    /\ solutionSize' = 0
    /\ solBuf' = "live"
    /\ pc' = "idle"
    /\ inits' = inits + 1
    /\ UNCHANGED <<input, api, other, result, tuple, history, fault, pending, ub, lost>>

Record(h, outcome) == IF Len(h) < MaxYield THEN Append(h, outcome) ELSE h

Exhausted == [kind |-> "Exhausted", tuple |-> << >>]

\* The state after a part of Next that left the iterator as s; ret < 0 when
\* Next returns NULL there.
AfterSearch(s, ret) ==
    /\ m' = s.m
    /\ solution' = s.solution
    /\ solutionSize' = s.solutionSize
    /\ ub' = s.ub
    /\ IF s.m.hung THEN pc' = "hung" /\ UNCHANGED <<result, history>>
       ELSE IF s.ub # "none" \/ s.m.fuelOut THEN pc' = "undefined" /\ UNCHANGED <<result, history>>
       ELSE IF ret < 0
       THEN pc' = "idle" /\ result' = "Exhausted" /\ history' = Record(history, Exhausted)
       ELSE pc' = "loop" /\ UNCHANGED <<result, history>>

\* coveringsiter_next up to the for (;;) loop.
NextCall ==
    /\ pc = "idle"
    /\ result = "Exhausted" \/ Len(history) < MaxYield
    /\ first' = FALSE
    /\ IF first THEN AfterSearch(Self, 0)
       ELSE LET b == coveringsiter_backup(Self) IN AfterSearch(b.s, b.ret)
    /\ UNCHANGED <<input, api, other, corner, solBuf, tuple, built, fault, pending, frees,
                   lost, inits>>

\* One turn of the loop of coveringsiter_next, case CONTINUE.
NextContinue ==
    /\ pc = "loop"
    /\ LET st == coveringsiter_step(Self)
       IN  /\ st.action = "CONTINUE"
           /\ AfterSearch(st.s, 0)
    /\ UNCHANGED <<input, api, other, corner, first, solBuf, tuple, built, fault, pending,
                   frees, lost, inits>>

\* One turn of the loop of coveringsiter_next, case BACKUP.
NextBackup ==
    /\ pc = "loop"
    /\ LET st == coveringsiter_step(Self)
           b == coveringsiter_backup(st.s)
       IN  /\ st.action = "BACKUP"
           /\ AfterSearch(b.s, b.ret)
    /\ UNCHANGED <<input, api, other, corner, first, solBuf, tuple, built, fault, pending,
                   frees, lost, inits>>

\* One turn of the loop of coveringsiter_next, case SOLUTION, the tuple built.
NextSolution ==
    /\ pc = "loop"
    /\ coveringsiter_step(Self).action = "SOLUTION"
    /\ tuple' = coveringsiter_solution(Self)
    /\ result' = "Solution"
    /\ history' = Record(history, [kind |-> "Solution", tuple |-> tuple'])
    /\ pc' = "idle"
    /\ UNCHANGED <<input, api, other, m, corner, first, solution, solutionSize, solBuf, built,
                   fault, pending, frees, ub, lost, inits>>

\* coveringsiter_dtor: restore the matrix, free it, free the stack buffer.
Drop ==
    /\ pc = "idle"
    /\ api = "func"
    /\ LET s == RestoreMatrix(Self)
       IN  /\ m' = s.m
           /\ solutionSize' = s.solutionSize
           /\ ub' = s.ub
           /\ IF s.m.hung THEN pc' = "hung" /\ UNCHANGED <<frees, solBuf, corner>>
              ELSE IF s.ub # "none" \/ s.m.fuelOut
              THEN pc' = "undefined" /\ UNCHANGED <<frees, solBuf, corner>>
              ELSE /\ pc' = "dropped"
                   /\ frees' = CountFrees(frees, free_matrix(s.m, corner))
                   /\ solBuf' = "freed"
                   /\ corner' = NULL
    /\ UNCHANGED <<input, api, other, first, solution, result, tuple, history, built, fault,
                   pending, lost, inits>>

Next ==
    \/ Construct
    \/ NextCall
    \/ NextContinue
    \/ NextBackup
    \/ NextSolution
    \/ Drop

Spec == Init /\ [][Next]_vars

(* ----------------------- a host that can fail -------------------------- *)
RECURSIVE SumLen(_)
SumLen(rows) == IF rows = << >> THEN 0 ELSE Len(Head(rows)) + SumLen(Tail(rows))

\* The inputs built with a failing host.
FaultInputs == {rows \in Inputs : Len(rows) <= 2 /\ SumLen(rows) <= MaxFaultCells}

At(kind, r, k) == [kind |-> kind, row |-> r, pos |-> k]

\* Every call of the host made by the build of rows that can fail:
\*   corner_alloc  PyMem_New of the corner             covers_iter  PyObject_GetIter(covers)
\*   rows_next     PyIter_Next(coverIt) for row r      row_iter     PyObject_GetIter(cover)
\*   elem_next     PyIter_Next(it) for element k       compare      PyObject_RichCompareBool
\*   header_alloc  PyMem_New in find_column            cell_alloc   PyMem_New of the element
\*   solution_alloc PyMem_New of the stack buffer
\* and iter_alloc (PyObject_New) for coverings(), args (the argument checks) for __init__.
Faults(rows, a) ==
    {At(k, 0, 0) : k \in {"corner_alloc", "covers_iter", "solution_alloc",
                          IF a = "func" THEN "iter_alloc" ELSE "args"}}
    \cup {At("rows_next", r, 0) : r \in 1..(Len(rows) + 1)}
    \cup {At("row_iter", r, 0) : r \in 1..Len(rows)}
    \cup UNION {{At("elem_next", r, k) : k \in 1..(Len(rows[r]) + 1)} : r \in 1..Len(rows)}
    \cup UNION {{At(kind, r, k) : k \in 1..Len(rows[r]), kind \in {"compare", "header_alloc", "cell_alloc"}} :
                r \in 1..Len(rows)}

\* A matrix of which not even the corner was allocated.
NoMatrix ==
    [up |-> << >>, down |-> << >>, left |-> << >>, right |-> << >>,
     column |-> << >>, object |-> << >>, count |-> << >>, label |-> << >>,
     hung |-> FALSE, fuelOut |-> FALSE, covered |-> << >>, paired |-> TRUE,
     snaps |-> << >>, same |-> TRUE, unlinked |-> << >>, linked |-> << >>]

\* coverings(covers) with the host failing at f: what the caller gets ("iter"
\* or "NULL") and what is left of the matrix, the buffer and the frees.
coverings(rows, f) ==
    IF f.kind = "corner_alloc"
    THEN [ret |-> "NULL", m |-> NoMatrix, frees |-> << >>, hit |-> TRUE, pending |-> TRUE]
    ELSE CHOOSE c \in
        {IF ~b.ok \/ f.kind \in {"iter_alloc", "solution_alloc"}
         \* error: free_matrix(corner), or the dtor of the iterator when the buffer
         \* could not be allocated (solutionSize is 0 there: nothing to restore)
         THEN [ret |-> "NULL", m |-> b.m,
               frees |-> CountFrees(NoFrees(b.m), free_matrix(b.m, Corner)),
               hit |-> TRUE, pending |-> TRUE]
         ELSE [ret |-> "iter", m |-> b.m, frees |-> NoFrees(b.m), hit |-> b.pending,
               pending |-> b.pending] : b \in {BuildMatrix(rows, f)}} : TRUE

\* coverings() returning an iterator while an error is pending (PyIter_Next
\* failed and the loop took it for the end of the input): the interpreter either
\* hands the iterator to the caller or drops it and raises, so both happen here.
ConstructFaulty ==
    /\ pc = "new"
    /\ api = "func"
    /\ \E f \in Faults(input, api) : \E c \in {coverings(input, f)} :
       \E dropped \in (IF c.ret = "iter" /\ c.pending THEN BOOLEAN ELSE {FALSE}) :
             /\ m' = c.m
             /\ built' = c.m
             /\ fault' = IF c.hit THEN f ELSE NoFault
             /\ pending' = c.pending
             /\ IF c.ret = "iter" /\ ~dropped
                THEN /\ corner' = Corner
                     /\ first' = TRUE
                     /\ solution' = [i \in 1..column_count(c.m) |-> NULL]
                     /\ solBuf' = "live"
                     /\ frees' = c.frees
                     /\ pc' = "idle"
                ELSE /\ pc' = "failed"
                     /\ frees' = IF dropped
                                 THEN CountFrees(c.frees, free_matrix(c.m, Corner))
                                 ELSE c.frees
                     /\ UNCHANGED <<corner, first, solution, solBuf>>
    /\ solutionSize' = 0
    /\ inits' = inits + 1
    /\ UNCHANGED <<input, api, other, result, tuple, history, ub, lost>>

\* coverings_cleanup: restore the matrix, free it, free the stack buffer.  The
\* fields of self keep their values: corner and solution are left dangling.
coverings_cleanup(s) ==
    CHOOSE c \in
        {IF r.m.hung \/ r.m.fuelOut \/ r.ub # "none" THEN r
         ELSE IF s.buf = "freed" THEN [r EXCEPT !.ub = "double free"]
         ELSE [r EXCEPT !.buf = IF s.buf = "live" THEN "freed" ELSE "null"] :
         r \in {IF s.corner # NULL THEN RestoreMatrix(s) ELSE s}} : TRUE

\* Whether free_matrix in cleanup frees every node of the matrix exactly once.
FreesAll(mx, c) ==
    \A i \in 1..NumNodes(mx) : CountFrees(NoFrees(mx), free_matrix(mx, c))[i] = 1

\* coverings_init with the host failing at f (f = NoFault: never).
ClassInit ==
    /\ pc = "idle"
    /\ api = "class"
    /\ inits < MaxInits
    /\ inits' = inits + 1
    /\ \E f \in Faults(input, api) \cup {NoFault} :
         IF f.kind = "args"
         THEN /\ fault' = f
              /\ UNCHANGED <<m, corner, first, solution, solutionSize, solBuf, result,
                             tuple, history, built, pending, frees, ub, lost, pc>>
         ELSE \E cl \in {coverings_cleanup(Self)}, b \in {BuildMatrix(input, f)} :
         LET hit == ~b.ok \/ b.pending \/ f.kind \in {"corner_alloc", "solution_alloc"}
             done == b.ok /\ f.kind # "corner_alloc"
         IN  IF cl.m.hung \/ cl.m.fuelOut \/ cl.ub # "none"
             THEN /\ m' = cl.m
                  /\ solutionSize' = cl.solutionSize
                  /\ ub' = cl.ub
                  /\ pc' = IF cl.m.hung THEN "hung" ELSE "undefined"
                  /\ UNCHANGED <<corner, first, solution, solBuf, result, tuple, history,
                                 built, fault, pending, frees, lost>>
             ELSE /\ lost' = (lost \/ (corner # NULL /\ ~FreesAll(cl.m, corner)))
                  /\ fault' = IF hit THEN f ELSE NoFault
                  /\ pending' = hit
                  /\ ub' = ub
                  /\ pc' = "idle"
                  /\ result' = "none"
                  /\ history' = << >>
                  /\ tuple' = << >>
                  /\ IF f.kind = "corner_alloc"
                     THEN m' = NoMatrix /\ corner' = NULL
                     ELSE m' = b.m /\ corner' = Corner
                  /\ built' = m'
                  /\ frees' = NoFrees(m')
                  /\ IF done
                     THEN /\ first' = TRUE
                          /\ solutionSize' = 0
                          /\ IF f.kind = "solution_alloc"
                             THEN solution' = << >> /\ solBuf' = "null"
                             ELSE /\ solution' = [i \in 1..column_count(b.m) |-> NULL]
                                  /\ solBuf' = "live"
                     ELSE /\ first' = first
                          /\ solutionSize' = cl.solutionSize
                          /\ solution' = solution
                          /\ solBuf' = cl.buf
    /\ UNCHANGED <<input, api, other, other>>

\* coverings_dealloc: coverings_cleanup, then tp_free.
ClassDealloc ==
    /\ pc = "idle"
    /\ api = "class"
    /\ \E cl \in {coverings_cleanup(Self)} :
           /\ m' = cl.m
           /\ solutionSize' = cl.solutionSize
           /\ ub' = cl.ub
           /\ IF cl.m.hung THEN pc' = "hung" /\ UNCHANGED <<frees, solBuf, corner>>
              ELSE IF cl.ub # "none" \/ cl.m.fuelOut
              THEN pc' = "undefined" /\ UNCHANGED <<frees, solBuf, corner>>
              ELSE /\ pc' = "dropped"
                   /\ frees' = CountFrees(frees, free_matrix(cl.m, corner))
                   /\ solBuf' = cl.buf
                   /\ corner' = NULL
    /\ UNCHANGED <<input, api, other, first, solution, result, tuple, history, built, fault,
                   pending, lost, inits>>

\* One turn of the loop of coveringsiter_next, case SOLUTION, PyTuple_New failing.
NextSolutionFails ==
    /\ pc = "loop"
    /\ coveringsiter_step(Self).action = "SOLUTION"
    /\ result' = "Error"
    \* the record keeps the rows of the stack, of which no tuple was made
    /\ history' = Record(history, [kind |-> "Error", tuple |-> coveringsiter_solution(Self)])
    /\ pc' = "idle"
    /\ UNCHANGED <<input, api, other, m, corner, first, solution, solutionSize, solBuf, tuple,
                   built, fault, pending, frees, ub, lost, inits>>

InitFaulty ==
    /\ input \in FaultInputs
    /\ api \in {"func", "class"}
    /\ pc = IF api = "func" THEN "new" ELSE "idle"
    /\ InitObject
    /\ other = NoOther(input)

NextFaulty ==
    \/ Construct
    \/ ConstructFaulty
    \/ ClassInit
    \/ NextCall
    \/ NextContinue
    \/ NextBackup
    \/ NextSolution
    \/ NextSolutionFails
    \/ Drop
    \/ ClassDealloc

SpecFaulty == InitFaulty /\ [][NextFaulty]_vars

(* --------------------------- two iterators ----------------------------- *)
\* Whether a part of Next left s where the program does not go on: inside a
\* loop that never exits, or after an undefined access.
Stuck(s) == s.m.hung \/ s.m.fuelOut \/ s.ub # "none"

\* The turns of the for (;;) loop that one call of Next may take in the model.
StepFuel(s) == 8 * NumNodes(s.m) + 8

\* for (;;) { switch (coveringsiter_step(self)) ... }: ret is "tuple" when the
\* call returns a solution, "NULL" when it returns NULL, "stuck" otherwise.
RECURSIVE NextLoop(_, _)
NextLoop(s, fuel) ==
    IF fuel = 0 THEN [ret |-> "stuck", s |-> [s EXCEPT !.m.fuelOut = TRUE]]
    ELSE CHOOSE r \in
        {IF Stuck(st.s) THEN [ret |-> "stuck", s |-> st.s]
         ELSE IF st.action = "CONTINUE" THEN NextLoop(st.s, fuel - 1)
         ELSE IF st.action = "SOLUTION" THEN [ret |-> "tuple", s |-> s]
         ELSE CHOOSE rb \in
             {IF Stuck(b.s) THEN [ret |-> "stuck", s |-> b.s]
              ELSE IF b.ret < 0 THEN [ret |-> "NULL", s |-> b.s]
              ELSE NextLoop(b.s, fuel - 1) : b \in {coveringsiter_backup(st.s)}} : TRUE :
         st \in {coveringsiter_step(s)}} : TRUE

\* Next which never backs up from the solution it returned last.
coveringsiter_next_no_backup(s) == NextLoop([s EXCEPT !.first = FALSE], StepFuel(s))

\* .tp_iternext as one call.
coveringsiter_next(s) ==
    IF s.first THEN NextLoop([s EXCEPT !.first = FALSE], StepFuel(s))
    ELSE CHOOSE r \in
        {IF Stuck(b.s) THEN [ret |-> "stuck", s |-> b.s]
         ELSE IF b.ret < 0 THEN [ret |-> "NULL", s |-> b.s]
         ELSE NextLoop(b.s, StepFuel(s)) : b \in {coveringsiter_backup(s)}} : TRUE

\* The rearrangements of one row, and of the elements inside the rows of an input.
Perms(row) == {[i \in DOMAIN row |-> row[f[i]]] : f \in Permutations(DOMAIN row)}

Reorderings(rows) ==
    {q \in [DOMAIN rows -> UNION {Perms(rows[r]) : r \in DOMAIN rows}] :
        \A r \in DOMAIN rows : q[r] \in Perms(rows[r])}

PairInputs == UNION {RowsOf(r, MaxPairCells) : r \in 0..MaxRows}

\* coverings(other.input), no call of the host failing.  A call on one object
\* runs to its end before a call on another begins (pc # "loop").
OtherConstruct ==
    /\ pc # "loop"
    /\ other.pc = "new"
    /\ \E b \in {BuildMatrix(other.input, NoFault)} :
           other' = [other EXCEPT !.pc = "idle", !.m = b.m, !.corner = Corner,
                                  !.first = TRUE, !.buf = "live", !.solutionSize = 0,
                                  !.solution = [i \in 1..column_count(b.m) |-> NULL]]
    /\ UNCHANGED <<input, api, pc, m, corner, first, solution, solutionSize, solBuf,
                   result, tuple, history, built, fault, pending, frees, ub, lost, inits>>

\* One call of Next on the second object.
OtherNext ==
    /\ pc # "loop"
    /\ other.pc = "idle"
    /\ Len(other.history) < MaxYield
    /\ \E r \in {coveringsiter_next(other)} :
           other' = IF r.s.m.hung THEN [r.s EXCEPT !.pc = "hung"]
                    ELSE IF r.ret = "stuck" THEN [r.s EXCEPT !.pc = "undefined"]
                    ELSE IF r.ret = "NULL"
                    THEN [r.s EXCEPT !.history = Append(@, Exhausted)]
                    ELSE [r.s EXCEPT !.history =
                              Append(@, [kind |-> "Solution",
                                         tuple |-> coveringsiter_solution(r.s)])]
    /\ UNCHANGED <<input, api, pc, m, corner, first, solution, solutionSize, solBuf,
                   result, tuple, history, built, fault, pending, frees, ub, lost, inits>>

InitPair ==
    /\ input \in PairInputs \cup {ScenarioA, ScenarioC, ScenarioE}
    /\ api = "func"
    /\ pc = "new"
    /\ InitObject
    /\ other = NoOther(input)

InitReordered ==
    /\ input \in EnumeratedInputs
    /\ api = "func"
    /\ pc = "new"
    /\ InitObject
    /\ other \in {NoOther(q) : q \in Reorderings(input)}

NextPair ==
    \/ Construct
    \/ NextCall
    \/ NextContinue
    \/ NextBackup
    \/ NextSolution
    \/ Drop
    \/ OtherConstruct
    \/ OtherNext

\* Two objects built from the same input.
SpecPair == InitPair /\ [][NextPair]_vars

\* Two objects, the second built from the input with its rows rearranged inside.
SpecReordered == InitReordered /\ [][NextPair]_vars

\* No traversal of the model is ever cut off.
FuelSuffices == ~m.fuelOut /\ ~other.m.fuelOut

(* ------------------------ what an exact cover is ----------------------- *)
\* The universe: all distinct elements occurring in the rows.
Universe(rows) == UNION {Range(rows[r]) : r \in DOMAIN rows}

\* The sets of row positions that partition the universe: every element of the
\* universe lies in exactly one chosen row, and no chosen row is empty.
ExactCovers(rows) ==
    {S \in SUBSET DOMAIN rows :
        /\ \A r \in S : rows[r] # << >>
        /\ \A x \in Universe(rows) : Cardinality({r \in S : x \in Range(rows[r])}) = 1}

\* The rows of tuple t are pairwise element-disjoint and their union is the universe.
IsPartition(rows, t) ==
    /\ \A i, j \in DOMAIN t : i # j => Range(rows[t[i]]) \cap Range(rows[t[j]]) = {}
    /\ UNION {Range(rows[t[i]]) : i \in DOMAIN t} = Universe(rows)

Solutions(h) == {i \in DOMAIN h : h[i].kind = "Solution"}

\* The history holds every outcome of the iterator (it was not cut off).
Complete(h) == Len(h) < MaxYield

\* No row of the input holds the same element twice.
NoRepeats(rows) == \A r \in DOMAIN rows : Cardinality(Range(rows[r])) = Len(rows[r])

(* ------------------------------- claims -------------------------------- *)
\* C1: whenever Next returns Solution(T), the rows in T are pairwise
\* element-disjoint and the union of their elements is the universe of the input.
C1_SolutionIsPartition ==
    result = "Solution" => IsPartition(input, tuple)

\* C2: when Next has reported Exhausted, every exact cover of the input (a set
\* of row positions) was yielded exactly once and nothing else was yielded.
C2_EachCoverOnce ==
    (result = "Exhausted" /\ Complete(history)) =>
        /\ \A i \in Solutions(history) : Range(history[i].tuple) \in ExactCovers(input)
        /\ \A S \in ExactCovers(input) :
              Cardinality({i \in Solutions(history) : Range(history[i].tuple) = S}) = 1

\* C3: no Next call gets into a loop it never leaves.
C3_NextTerminates == pc # "hung"

\* C4: once Next has returned Exhausted, a further Next call returns Exhausted
\* again and leaves the matrix and the solution stack as they were.
C4_ExhaustedStays ==
    [][(NextCall /\ result = "Exhausted") =>
          (pc' = "idle" /\ result' = "Exhausted" /\ m' = m
           /\ solution' = solution /\ solutionSize' = solutionSize)]_vars

C4_Witness ==
    /\ Len(history) >= 2
    /\ history[Len(history)].kind = "Exhausted"
    /\ history[Len(history) - 1].kind = "Exhausted"

\* C5: for the input with no rows the first Next call returns Solution with
\* the empty tuple and the second Next call returns Exhausted.
C5_EmptyInput ==
    input = ScenarioD =>
        /\ Len(history) >= 1 => history[1] = [kind |-> "Solution", tuple |-> << >>]
        /\ Len(history) >= 2 => history[2] = Exhausted

C5_Witness == input = ScenarioD /\ Len(history) >= 2

\* C6 as claimed: for R1={a,b}, R2={a} the first Next call returns Exhausted.
C6_ScenarioBNoSolution ==
    (input = ScenarioB /\ Len(history) >= 1) => history[1] = Exhausted

\* C6 amended: for R1={a,b}, R2={a} the first Next call returns the tuple (R1),
\* which covers a and b once each, and the second Next call returns Exhausted.
C6_ScenarioBOneSolution ==
    input = ScenarioB =>
        /\ Len(history) >= 1 => history[1] = [kind |-> "Solution", tuple |-> <<1>>]
        /\ Len(history) >= 2 => history[2] = Exhausted

C6_Witness == input = ScenarioB /\ Len(history) >= 2

\* C7: for Knuth's example the enumeration yields exactly one tuple, whose
\* rows are exactly R1, R4 and R5, and then reports Exhausted.
C7_ScenarioA ==
    input = ScenarioA =>
        /\ Len(history) >= 1 =>
              (history[1].kind = "Solution" /\ Len(history[1].tuple) = 3
               /\ Range(history[1].tuple) = {1, 4, 5})
        /\ Len(history) >= 2 => history[2] = Exhausted

C7_Witness == input = ScenarioA /\ Len(history) >= 2

\* The row each node was built from, from the input alone: the nodes are
\* allocated in input order, a header right before the first element of its column.
RECURSIVE RowOfNodes(_, _, _, _)
RowOfNodes(rows, r, k, known) ==
    IF r > Len(rows) THEN << >>
    ELSE IF k > Len(rows[r]) THEN RowOfNodes(rows, r + 1, 1, known)
    ELSE (IF rows[r][k] \in known THEN <<r>> ELSE <<NULL, r>>)
         \o RowOfNodes(rows, r, k + 1, known \cup {rows[r][k]})

BuiltFrom(rows) == <<NULL>> \o RowOfNodes(rows, 1, 1, {})

\* C8: when Next returns Solution(T), T is as long as the solution stack is
\* deep, and T[i] is the input row the cell at stack position i was built from.
C8_TupleIsStack ==
    (pc = "idle" /\ result = "Solution") =>
        /\ Len(tuple) = solutionSize
        /\ \A i \in 1..solutionSize : tuple[i] = BuiltFrom(input)[solution[i]]

C8_Witness == pc = "idle" /\ result = "Solution" /\ solutionSize >= 2

\* C9: when Next returns Exhausted, the solution stack is empty and every link
\* and every count of the matrix is what it was just after build.
C9_MatrixRestored ==
    (pc = "idle" /\ result = "Exhausted") =>
        /\ solutionSize = 0
        /\ Links(m) = Links(built)
        /\ m.count = built.count

\* C10: when Construct fails (an allocation, a comparison or an iteration of the
\* input fails after the corner exists), every header and cell allocated so far
\* has been freed exactly once, no solution buffer stays allocated, and no
\* object on which Next can be called holds the partially built matrix.
C10_FailedConstructCleansUp ==
    (fault.kind \notin {"none", "args"} /\ result = "none" /\ pc \in {"failed", "idle"})
        => /\ \A i \in 1..NumNodes(built) : frees[i] = 1
           /\ solBuf # "live"
           /\ ~(pc = "idle" /\ corner # NULL)

\* The part of C10 that the function coverings() keeps: whenever it returns NULL,
\* every node of the partial matrix has been freed exactly once and no buffer lives.
C10_FunctionErrorPathFrees ==
    (api = "func" /\ pc = "failed")
        => /\ \A i \in 1..NumNodes(built) : frees[i] = 1
           /\ solBuf # "live"

C10_Witness ==
    /\ api = "func"
    /\ pc = "failed"
    /\ fault.kind = "cell_alloc"
    /\ NumNodes(built) >= 3

\* C11: when the iteration of the rows, or of the elements of one row, fails
\* part-way through, Construct fails: no iterator is returned and every node of
\* the partially built matrix has been freed; the failure is not taken for the
\* end of the sequence.
C11_IterationFailureIsFatal ==
    (fault.kind \in {"rows_next", "elem_next"} /\ result = "none" /\ pc \in {"failed", "idle"})
        => /\ pc = "failed"
           /\ \A i \in 1..NumNodes(built) : frees[i] = 1

\* C12: when the iterator is dropped between Next calls, the destructor leaves
\* the stack empty and the links of the matrix as the build made them (every
\* row of the stack uncovered), and then every node created at build, the
\* corner included, and the solution buffer are freed exactly once.
C12_DropRestoresAndFrees ==
    [][Drop => /\ pc' = "dropped"
               /\ solutionSize' = -1
               /\ Links(m') = Links(built)
               /\ \A i \in 1..NumNodes(built) : frees'[i] = 1
               /\ solBuf' = "freed"]_vars

C12_Witness == pc = "dropped" /\ result = "Solution" /\ Len(tuple) >= 2

\* C13: when the tuple of a solution cannot be built, Next returns Error and the
\* call that follows returns that same solution (or fails on it again): no
\* solution is lost from the enumeration.
C13_FailedTupleIsRetried ==
    \A k \in 1..(Len(history) - 1) :
        history[k].kind = "Error"
            => /\ history[k + 1].kind \in {"Solution", "Error"}
               /\ history[k + 1].tuple = history[k].tuple

\* The solutions of a history, each as the set of its input row positions.
SolutionSets(h) == {Range(h[i].tuple) : i \in Solutions(h)}

\* C14: an input and the same input with the elements rearranged inside its
\* rows yield, over the whole enumeration, the same set of solutions (each a
\* set of row positions).
C14_ReorderingKeepsSolutions ==
    (/\ pc = "idle" /\ result = "Exhausted" /\ Complete(history)
     /\ other.pc = "idle" /\ Len(other.history) > 0
     /\ other.history[Len(other.history)].kind = "Exhausted")
        => SolutionSets(history) = SolutionSets(other.history)

C16_CountIsColumnLength ==
    pc \in {"idle", "loop"} => \A i \in DOMAIN HeaderList(m) : check_column(m, HeaderList(m)[i])

\* C17: whatever is done with an object of the class (__init__, failing or
\* not, again or for the first time; Next; deallocation), no node and no
\* solution buffer is freed twice, and no call touches a buffer or a matrix
\* that was freed or never allocated, nor a stack index below 0.
C17_ClassObjectMemorySafe ==
    api = "class" => /\ ub = "none"
                     /\ \A i \in DOMAIN frees : frees[i] <= 1

\* C18: covers and uncovers of columns are paired and nested: every
\* link_column is for the column of the latest unlink_column not yet undone, so
\* a backtrack uncovers the columns in the reverse of the order in which the
\* descent covered them, and with an empty stack no cover is left to undo.
C18_CoversAreNested ==
    /\ m.paired
    /\ (pc \in {"idle", "loop", "dropped"} /\ solutionSize <= 0) => m.covered = << >>

C18_Witness ==
    /\ pc = "idle"
    /\ result = "Exhausted"
    /\ \E k \in DOMAIN history : Len(history[k].tuple) >= 2
    /\ \E r \in DOMAIN input : Len(input[r]) >= 2

\* Every link field and every count of a equals that of b, and the operation
\* that made a came to its end.
SameMatrix(a, b) == ~a.hung /\ ~a.fuelOut /\ Links(a) = Links(b) /\ a.count = b.count

\* C19: in every matrix state between search steps, unlink_column(h) followed
\* at once by link_column(h) restores every link and count, for every header h
\* of the header list; and so does unlink_row(r) followed by link_row(r), for
\* every cell r linked in the column of such a header.
C19_UncoverInvertsCover ==
    pc \in {"idle", "loop"} =>
        \A i \in DOMAIN HeaderList(m) :
            LET h == HeaderList(m)[i]
            IN  /\ SameMatrix(link_column(unlink_column(m, h), h), m)
                /\ \A j \in DOMAIN ColumnCells(m, h) :
                       LET r == ColumnCells(m, h)[j]
                       IN  SameMatrix(link_row(unlink_row(m, r), r), m)

\* C20: whenever a backtrack has uncovered the row at the top of the stack, at
\* depth d, and not yet covered another, the links and counts of the nodes
\* reachable from the corner are those seen just before the first row at depth
\* d was covered: every sibling at depth d starts from the same matrix.
C20_SiblingsSeeSameMatrix == m.same

(* ------------------------- well-formed lists --------------------------- *)
\* The nodes met going right from e until the walk is back at row.
RECURSIVE RowWalk(_, _, _, _)
RowWalk(mx, row, e, fuel) ==
    IF fuel = 0 \/ mx.right[e] = row THEN {e}
    ELSE {e} \cup RowWalk(mx, row, mx.right[e], fuel - 1)

\* check_row: e->right->left == e and e->left->right == e all around the row.
check_row(mx, row) ==
    \A e \in RowWalk(mx, row, row, NumNodes(mx)) :
        mx.left[mx.right[e]] = e /\ mx.right[mx.left[e]] = e

\* The asserts of check_column on the links: for the header and every cell of
\* its vertical list, up/down are inverse, the column is this one, and the row
\* of the node is well-formed.
ColumnWellFormed(mx, column) ==
    \A e \in {column} \cup Range(ColumnCells(mx, column)) :
        /\ mx.down[mx.up[e]] = e
        /\ mx.up[mx.down[e]] = e
        /\ mx.column[e] = column
        /\ check_row(mx, e)

\* check: the corner has no vertical list, its row (the header list) is
\* well-formed, and so is every column of the header list.
check(mx) ==
    /\ mx.up[Corner] = Corner
    /\ mx.down[Corner] = Corner
    /\ check_row(mx, Corner)
    /\ \A i \in DOMAIN HeaderList(mx) : ColumnWellFormed(mx, HeaderList(mx)[i])

\* C21: between search steps the header list of the corner is a well-formed
\* circular list, and for every header in it the vertical list is well-formed,
\* its cells name it as their column, and the row of each is well-formed.
C21_ListsWellFormed == pc \in {"idle", "loop"} => check(m)

\* The cells of the matrix: the nodes that are not their own column.
Cells(mx) == {n \in 1..NumNodes(mx) : mx.column[n] # n}

HorizontalIdentities(mx, x) == mx.right[mx.left[x]] = x /\ mx.left[mx.right[x]] = x

VerticalIdentities(mx, x) == mx.down[mx.up[x]] = x /\ mx.up[mx.down[x]] = x

\* C22 as claimed: between search steps every cell, covered or not, satisfies
\* x.left.right == x, x.right.left == x, x.up.down == x and x.down.up == x.
\* Stated here for the inputs whose rows repeat no element, where it already fails.
C22_AllCellsAllIdentities ==
    (pc \in {"idle", "loop"} /\ NoRepeats(input))
        => \A x \in Cells(m) : HorizontalIdentities(m, x) /\ VerticalIdentities(m, x)

\* C22 amended: in every state every cell satisfies x.left.right == x and
\* x.right.left == x (no operation of the search changes the row of a cell);
\* the vertical identities are not kept for cells taken out of their column.
C22_CellsKeepRowIdentities ==
    pc \in {"idle", "loop", "dropped"} => \A x \in Cells(m) : HorizontalIdentities(m, x)

C22_Witness ==
    /\ pc = "idle"
    /\ result = "Solution"
    /\ NoRepeats(input)
    /\ \E x \in Cells(m) : ~VerticalIdentities(m, x) /\ HorizontalIdentities(m, x)

MovesOf(moves, k) == {moves[i] : i \in {j \in DOMAIN moves : moves[j].kind = k}}

\* C24 as claimed: the cover of a column goes through its vertical list by
\* down links and through each row by right links, and the uncover goes by up
\* links and by left links.
C24_CoverDownRightUncoverUpLeft ==
    /\ \A v \in MovesOf(m.unlinked, "row") : v.to = v.down
    /\ \A v \in MovesOf(m.unlinked, "cell") : v.to = v.right
    /\ \A v \in MovesOf(m.linked, "row") : v.to = v.up
    /\ \A v \in MovesOf(m.linked, "cell") : v.to = v.left

\* C24 amended: the directions are the other way round.  The cover of a column
\* goes through its vertical list by up links, from the header's up, and
\* through each row by left links; the uncover goes by down links, from the
\* header's down, and through each row by right links.
C24_CoverUpLeftUncoverDownRight ==
    /\ \A v \in MovesOf(m.unlinked, "row") : v.to = v.up
    /\ \A v \in MovesOf(m.unlinked, "cell") : v.to = v.left
    /\ \A v \in MovesOf(m.linked, "row") : v.to = v.down
    /\ \A v \in MovesOf(m.linked, "cell") : v.to = v.right

C24_Witness ==
    /\ pc = "idle"
    /\ \E v \in MovesOf(m.unlinked, "row") : v.up # v.down
    /\ \E v \in MovesOf(m.unlinked, "cell") : v.left # v.right
    /\ \E v \in MovesOf(m.linked, "row") : v.up # v.down
    /\ \E v \in MovesOf(m.linked, "cell") : v.left # v.right

(* ------------------- Algorithm X, the recursive search ------------------ *)
\* The elements of the rows in the order of their first occurrence: the order
\* in which the columns are inserted.
RECURSIVE FirstSeen(_, _)
FirstSeen(elems, seen) ==
    IF elems = << >> THEN << >>
    ELSE IF Head(elems) \in seen THEN FirstSeen(Tail(elems), seen)
    ELSE <<Head(elems)>> \o FirstSeen(Tail(elems), seen \cup {Head(elems)})

RECURSIVE Flatten(_)
Flatten(rows) == IF rows = << >> THEN << >> ELSE Head(rows) \o Flatten(Tail(rows))

\* The live rows that hold element c.
RowsWith(rows, live, c) == {r \in live : c \in Range(rows[r])}

\* The leftmost column of cols among those with the fewest live rows.
LeftmostSmallest(rows, cols, live) ==
    LET n(i) == Cardinality(RowsWith(rows, live, cols[i]))
    IN  cols[CHOOSE i \in DOMAIN cols :
                 \A j \in DOMAIN cols : n(i) < n(j) \/ (n(i) = n(j) /\ i <= j)]

\* The covers found below the partial choice `chosen`, in the order found:
\* cols are the uncovered columns left to right, live the rows still in the
\* matrix, cands the rows of the selected column still to try, top to bottom.
RECURSIVE AlgorithmX(_, _, _, _)
RECURSIVE TryRows(_, _, _, _, _)
AlgorithmX(rows, cols, live, chosen) ==
    IF cols = << >> THEN <<chosen>>
    ELSE TryRows(rows, cols, live, chosen,
                 RowsWith(rows, live, LeftmostSmallest(rows, cols, live)))

TryRows(rows, cols, live, chosen, cands) ==
    IF cands = {} THEN << >>
    ELSE LET r == CHOOSE x \in cands : \A y \in cands : x <= y
             restCols == SelectSeq(cols, LAMBDA c : c \notin Range(rows[r]))
             restLive == {x \in live : Range(rows[x]) \cap Range(rows[r]) = {}}
         IN  AlgorithmX(rows, restCols, restLive, Append(chosen, r))
                 \o TryRows(rows, cols, live, chosen, cands \ {r})

Covers(rows) == AlgorithmX(rows, FirstSeen(Flatten(rows), {}), DOMAIN rows, << >>)

\* The tuples yielded so far, in order.
Yielded(h) == [i \in 1..Cardinality(Solutions(h)) |->
                  h[CHOOSE k \in Solutions(h) :
                        Cardinality({j \in Solutions(h) : j <= k}) = i].tuple]

\* C25: for every input the tuples yielded by the successive Next calls are, in
\* order and row by row, the covers found by the recursive Algorithm X that
\* takes the leftmost column of minimum count and tries its rows top to
\* bottom; all of them once Next has reported Exhausted.
C25_YieldsAlgorithmX ==
    (pc = "idle" /\ result # "none") =>
        LET y == Yielded(history)
            x == Covers(input)
        IN  /\ Len(y) <= Len(x)
            /\ \A i \in DOMAIN y : y[i] = x[i]
            /\ (result = "Exhausted" /\ Complete(history)) => Len(y) = Len(x)

\* Header c is, of the headers met going right from the corner, the first
\* whose count is the minimum over all of them.
LeftmostMinimum(mx, c) ==
    LET hs == HeaderList(mx)
    IN  \E i \in DOMAIN hs :
            /\ hs[i] = c
            /\ \A j \in DOMAIN hs :
                   /\ mx.count[c] <= mx.count[hs[j]]
                   /\ mx.count[hs[j]] = mx.count[c] => i <= j

\* C27: smallest_column returns no column iff the header list of the corner is
\* empty; otherwise it returns the leftmost of the headers whose count is the
\* minimum over the headers of the list.
C27_SmallestIsLeftmostMinimum ==
    pc \in {"idle", "loop"} =>
        /\ smallest_column(m) = NULL <=> HeaderList(m) = << >>
        /\ HeaderList(m) # << >> => LeftmostMinimum(m, smallest_column(m))

\* Two different headers tie for the minimum and the left one is returned.
C27_Witness ==
    /\ pc = "loop"
    /\ \E i, j \in DOMAIN HeaderList(m) :
           /\ i < j
           /\ HeaderList(m)[i] # HeaderList(m)[j]
           /\ m.count[HeaderList(m)[i]] = m.count[HeaderList(m)[j]]
           /\ smallest_column(m) = HeaderList(m)[i]

\* The columns of the cells of the row of cell `row`.
ColumnsOfRow(mx, row) == {mx.column[e] : e \in RowWalk(mx, row, row, NumNodes(mx))}

\* C26: a search step on a matrix between steps returns SOLUTION and changes
\* nothing iff the header list is empty; it returns BACKUP and changes nothing
\* iff the list is not empty and the selected smallest column has count 0;
\* otherwise it covers the row of the first cell below the selected header,
\* pushes that cell on the solution stack and returns CONTINUE.
C26_StepCases ==
    pc = "loop" =>
        LET st == coveringsiter_step(Self)
            hs == HeaderList(m)
            c == CHOOSE h \in Range(hs) : LeftmostMinimum(m, h)
            row == m.down[c]
        IN  /\ st.action = "SOLUTION" <=> hs = << >>
            /\ st.action = "BACKUP" <=> (hs # << >> /\ m.count[c] = 0)
            /\ st.action \in {"SOLUTION", "BACKUP"} => st.s = Self
            /\ (hs # << >> /\ m.count[c] # 0) =>
                   /\ st.action = "CONTINUE"
                   /\ ~st.s.m.hung /\ ~st.s.m.fuelOut /\ st.s.ub = "none"
                   /\ row # c /\ m.column[row] = c
                   /\ st.s.solutionSize = solutionSize + 1
                   /\ st.s.solution[solutionSize + 1] = row
                   /\ Range(HeaderList(st.s.m)) = Range(hs) \ ColumnsOfRow(m, row)

\* C28: in every reachable state the depth of the solution stack is at least
\* 0 and at most the number of columns the matrix had just after the build,
\* which is the capacity of the solution buffer, so no push of a search step
\* writes past the buffer.  The object is looked at while it exists: up to the
\* destructor, whose restore loop ends with the depth at -1.
C28_StackDepthBounded ==
    pc # "dropped" =>
        /\ solutionSize >= 0
        /\ solutionSize <= Len(HeaderList(built))
        /\ ub # "stack index"

\* The cells on the solution stack, bottom first.
Stack == SubSeq(solution, 1, solutionSize)

\* The labels of the columns in which the row of cell `row` has a cell.
LabelsOfRow(mx, row) == {mx.label[c] : c \in ColumnsOfRow(mx, row)}

\* C29: between search steps the rows on the solution stack are pairwise
\* element-disjoint, and the labels of the columns in the header list of the
\* corner are the universe less the elements of the rows on the stack.
C29_StackRowsDisjointAndCovered ==
    pc \in {"idle", "loop"} =>
        /\ \A i, j \in DOMAIN Stack :
               i # j => LabelsOfRow(m, Stack[i]) \cap LabelsOfRow(m, Stack[j]) = {}
        /\ {m.label[HeaderList(m)[i]] : i \in DOMAIN HeaderList(m)}
               = Universe(input) \ UNION {LabelsOfRow(m, Stack[i]) : i \in DOMAIN Stack}

\* C30: for any input, in every reachable state, also in the middle of a cover
\* or an uncover and for the headers that are covered, the count of every
\* header is at least 0.
C30_CountsNotNegative ==
    \A h \in 1..NumNodes(m) : m.column[h] = h => m.count[h] >= 0

\* A step of a Next call: the call itself or a turn of its loop.
NextStep == NextCall \/ NextContinue \/ NextBackup \/ NextSolution

\* What a Next call leaves alone in the matrix: the nodes that exist, and of
\* every node the column, the row identifier and the label, and of every cell
\* the left and the right link; of the corner the up and the down link.
MatrixFrame(before, after) ==
    /\ NumNodes(after) = NumNodes(before)
    /\ after.column = before.column
    /\ after.object = before.object
    /\ after.label = before.label
    /\ \A x \in Cells(before) :
           after.left[x] = before.left[x] /\ after.right[x] = before.right[x]
    /\ after.up[Corner] = before.up[Corner]
    /\ after.down[Corner] = before.down[Corner]

\* C31: no Next call creates or frees a header or a cell, and Next changes only
\* the left and right links of headers and of the corner, the up and down
\* links of headers and cells, the counts, the solution stack and the first
\* flag: no cell's left, right, column or row identifier, no header's label,
\* and nothing outside the solution buffer.
C31_NextFrame ==
    [][NextStep =>
          /\ MatrixFrame(m, m')
          /\ frees' = frees
          /\ corner' = corner
          /\ solBuf' = solBuf
          /\ Len(solution') = Len(solution)
          /\ ub' = "none"]_vars

\* The part of C31 about the matrix alone.
C31_MatrixFrame == [][NextStep => MatrixFrame(m, m') /\ frees' = frees]_vars

(* ------------------------- the matrix as built ------------------------- *)
\* The members of a set of nodes in the order of their allocation.
InOrder(S) == [i \in 1..Cardinality(S) |->
                  CHOOSE c \in S : Cardinality({d \in S : d <= c}) = i]

\* The cells in the order of their allocation: one per element read from the
\* input, row by row.
CellSeq(mx) == InOrder(Cells(mx))

\* The labels of the headers met going right from the corner.
LabelList(mx) == [i \in DOMAIN HeaderList(mx) |-> mx.label[HeaderList(mx)[i]]]

\* The matrix is the one a complete build has left.
Built == pc \notin {"new", "dropped"} /\ m = built

\* C32: after the build the header list read from the right link of the corner
\* holds one header per distinct element of the input, in the order of first
\* occurrence in the input, and the cell made for an element lies in the
\* column whose label is that element.
C32_OneColumnPerElement ==
    Built =>
        /\ LabelList(m) = FirstSeen(Flatten(input), {})
        /\ Len(CellSeq(m)) = Len(Flatten(input))
        /\ \A i \in DOMAIN CellSeq(m) :
               m.label[m.column[CellSeq(m)[i]]] = Flatten(input)[i]

\* Built from an input in which an element comes back and the first
\* occurrences are not in increasing order.
C32_Witness ==
    /\ Built
    /\ result = "none"
    /\ LabelList(m) = <<2, 1>>
    /\ Len(Flatten(input)) > 2

\* The cells met going right from cell e until the walk is back at cell row.
RECURSIVE RowSeq(_, _, _, _)
RowSeq(mx, row, e, fuel) ==
    IF fuel = 0 \/ mx.right[e] = row THEN <<e>>
    ELSE <<e>> \o RowSeq(mx, row, mx.right[e], fuel - 1)

\* The number of elements in the rows before row r.
RECURSIVE Before(_, _)
Before(rows, r) == IF r = 1 THEN 0 ELSE Before(rows, r - 1) + Len(rows[r - 1])

\* C33: after the build, for every non-empty row of the input, following right
\* from the first cell of the row visits one cell per element occurrence of
\* the row, in input order, and then is back at the first cell; for every
\* column, following down from the header visits the cells of the column in
\* input row order and then is back at the header.
C33_RowsAndColumnsInInputOrder ==
    Built =>
        /\ Len(CellSeq(m)) = Len(Flatten(input))
        /\ \A r \in DOMAIN input :
               input[r] # << >> =>
                   LET first1 == CellSeq(m)[Before(input, r) + 1]
                       walk == RowSeq(m, first1, first1, NumNodes(m))
                   IN  /\ walk = SubSeq(CellSeq(m), Before(input, r) + 1,
                                        Before(input, r) + Len(input[r]))
                       /\ m.right[walk[Len(walk)]] = first1
                       /\ \A k \in DOMAIN walk :
                              /\ m.object[walk[k]] = r
                              /\ m.label[m.column[walk[k]]] = input[r][k]
        /\ \A i \in DOMAIN HeaderList(m) :
               LET h == HeaderList(m)[i]
                   col == ColumnCells(m, h)
               IN  /\ col = InOrder({c \in Cells(m) : m.column[c] = h})
                   /\ m.down[IF col = << >> THEN h ELSE col[Len(col)]] = h

\* Built with a row of three cells and a column of two.
C33_Witness ==
    /\ Built
    /\ result = "none"
    /\ \E r \in DOMAIN input : Len(input[r]) >= 3
    /\ \E i \in DOMAIN HeaderList(m) : Len(ColumnCells(m, HeaderList(m)[i])) >= 2

(* ------------------------ rows with no element ------------------------- *)
\* The rows that have an element, in order, and their positions in the input.
Squeeze(rows) == SelectSeq(rows, LAMBDA row : row # << >>)

Kept(rows) == InOrder({r \in DOMAIN rows : rows[r] # << >>})

\* The rows with an empty row put in front of them and one after the first.
WithEmptyRows(rows) == << << >> >> \o <<Head(rows)>> \o << << >> >> \o Tail(rows)

\* Two objects, the second built from the input of the first without its
\* empty rows.
InitSqueezed ==
    /\ input \in PairInputs \cup {WithEmptyRows(ScenarioA), WithEmptyRows(ScenarioB)}
    /\ api = "func"
    /\ pc = "new"
    /\ InitObject
    /\ other = NoOther(Squeeze(input))

SpecSqueezed == InitSqueezed /\ [][NextPair]_vars

\* A tuple of the second object, its rows named by their positions in the
\* input of the first.
Renamed(t) == [k \in DOMAIN t |-> Kept(input)[t[k]]]

\* C34: a row with no element creates no cell and no header: the built matrix
\* is the one built from the input without its empty rows, so are the tuples
\* yielded, call by call, and no empty row is in a yielded tuple.
C34_EmptyRowsDropped ==
    /\ (pc # "new" /\ other.pc = "idle" /\ other.first) =>
           /\ Links(built) = Links(other.m)
           /\ built.column = other.m.column
           /\ built.count = other.m.count
           /\ built.label = other.m.label
           /\ \A n \in 1..NumNodes(built) :
                  built.object[n] = IF other.m.object[n] = NULL THEN NULL
                                    ELSE Kept(input)[other.m.object[n]]
           /\ NumNodes(built) = 1 + Len(FirstSeen(Flatten(input), {})) + Len(Flatten(input))
    /\ \A i \in DOMAIN history :
           /\ \A k \in DOMAIN history[i].tuple : input[history[i].tuple[k]] # << >>
           /\ i \in DOMAIN other.history =>
                  /\ history[i].kind = other.history[i].kind
                  /\ history[i].tuple = Renamed(other.history[i].tuple)

\* The input has an empty row before a row that is yielded, and both objects
\* have yielded a cover and have reported the end.
C34_Witness ==
    /\ Len(Squeeze(input)) < Len(input)
    /\ Len(history) >= 2
    /\ Len(other.history) = Len(history)
    /\ history[1].kind = "Solution"
    /\ history[1].tuple # other.history[1].tuple
    /\ history[Len(history)].kind = "Exhausted"

====
